---- MODULE Spec2Model ----
(***************************************************************************)
(* The training driver of train.py: the loop of train(), its epoch         *)
(* bookkeeping, the learning-rate schedule and the checkpoint cadence.     *)
(*                                                                         *)
(* One loop iteration is modelled by at most two steps: EpochBoundary      *)
(* (lines 117-140, only when iteration % epoch_size == 0) and BatchStep    *)
(* (lines 143-167 and the loop increment).  `iteration` is the index of    *)
(* the iteration being executed, which is also the number of iterations    *)
(* completed so far; it equals max_iter once the loop has ended.           *)
(*                                                                         *)
(* Real numbers (learning rates) are exact fractions [num, den] in lowest  *)
(* terms.  The network is abstracted to the number of parameter updates    *)
(* it has received and the number of backward passes accumulated in its    *)
(* gradient buffers.                                                       *)
(***************************************************************************)
EXTENDS Integers, Sequences, FiniteSets, TLC

VARIABLES
    args,            \* parsed command line: batch_size, iterations, lr, gamma, visdom
    dataset_len,     \* len(dataset)
    criterion,       \* the (loss_l, loss_c) pairs the loss function can return
    pc,              \* "start" | "loop" | "batch" | "done" | "fault" | "call"
    fault,           \* the uncaught exception, "" when none
    iteration,
    epoch_size,
    step_index,
    epoch,
    loc_loss,
    conf_loss,
    cum_loc_loss,
    cum_conf_loss,
    optimizer,       \* param_groups: sequence of [lr, momentum, weight_decay]
    net,             \* [params: updates applied, grad: backward passes accumulated]
    batch_iterator,  \* [id: iterators created so far, born: iteration of creation,
                     \*  pos: batches fetched from it, samples: samples fetched from it]
    viz,             \* the visualization sink: [lines, appended, X, Y]
    saved,           \* files written by torch.save, in order
    lr_log,          \* calls of adjust_learning_rate made by train(): <<iteration, step>>
    events,          \* the steps of the current loop body, in execution order
    last_step,       \* the last optimizer.step(): [lr, grad, out]
    hist,            \* running totals of the batch losses: now, at the latest epoch
                     \* boundary (mark) and at the one before (prev)
    retired          \* the batch iterator replaced last: [pos, samples]

vars == <<args, dataset_len, criterion, pc, fault, iteration, epoch_size, step_index,
          epoch, loc_loss, conf_loss, cum_loc_loss, cum_conf_loss, optimizer, net,
          batch_iterator, viz, saved, lr_log, events, last_step, hist, retired>>

---------------------------------------------------------------------------
(* Bounds of the model *)

MaxLen == 7          \* dataset lengths 0..MaxLen
MaxBatch == 3        \* batch sizes 1..MaxBatch
MaxSteps == 10       \* loop iterations explored by Spec
MaxStepIndex == 3    \* step indices 0..MaxStepIndex given to adjust_learning_rate
MaxGroups == 3       \* parameter groups of the optimizer in SpecAdjust

(* Program constants *)

max_iter == 120000
stepvalues == {80000, 100000, 120000}
SaveEvery == 5000
DefaultIterations == 120000

---------------------------------------------------------------------------
(* Exact fractions *)

RECURSIVE GCD(_, _)
GCD(a, b) == IF b = 0 THEN a ELSE GCD(b, a % b)

Frac(n, d) == LET g == GCD(n, d) IN [num |-> n \div g, den |-> d \div g]

FracMul(x, y) == Frac(x.num * y.num, x.den * y.den)

\* gamma ** step
RECURSIVE FracPow(_, _)
FracPow(x, k) == IF k = 0 THEN Frac(1, 1) ELSE FracMul(x, FracPow(x, k - 1))

---------------------------------------------------------------------------
(* adjust_learning_rate(optimizer, gamma, step), lines 171-178 *)

adjust_from_current_rate(param_groups, gamma, step) ==
    [g \in DOMAIN param_groups |->
        [param_groups[g] EXCEPT !.lr = FracMul(param_groups[g].lr, FracPow(gamma, step))]]

adjust_learning_rate(param_groups, gamma, step) ==
    LET lr == FracMul(args.lr, FracPow(gamma, step))
    IN  [g \in DOMAIN param_groups |-> [param_groups[g] EXCEPT !.lr = lr]]

\* optim.SGD(net.parameters(), lr=args.lr, momentum=..., weight_decay=...), lines 83-84
SGD(lr) == << [lr |-> lr, momentum |-> Frac(9, 10), weight_decay |-> Frac(5, 10000)] >>

---------------------------------------------------------------------------
(* Pieces of the loop body *)

\* epoch_size = len(dataset) // args.batch_size, line 99
EpochSize_OffByOne(n, b) == n \div b + 1

EpochSize(n, b) == n \div b

\* iteration % epoch_size == 0, line 117
IsEpochBoundary_ByBatchSize(i, e) == i % args.batch_size = 0

IsEpochBoundary(i, e) == i % e = 0

\* next(batch_iterator), line 143: the DataLoader of lines 119-120 yields the full
\* batches and then the partial one, and raises StopIteration after them.
NextBatch(it) ==
    LET left == dataset_len - it.pos * args.batch_size
        size == IF left >= args.batch_size THEN args.batch_size ELSE left
    IN  [ok |-> it.id > 0 /\ left > 0, size |-> size]

\* loss_list, lines 128-131
loss_list_CumInThird(loc, conf, cum_loc, cum_conf) ==
    <<loc, conf, cum_loc + cum_conf, cum_loc, cum_conf, cum_loc + cum_conf>>

loss_list(loc, conf, cum_loc, cum_conf) ==
    <<loc, conf, loc + conf, cum_loc, cum_conf, cum_loc + cum_conf>>

\* Lines 124-125 and 139-140: roll the epoch counters into the cumulative ones,
\* then reset them.
RollOver_NoReset(loc, conf, cum_loc, cum_conf) ==
    [cum_loc |-> cum_loc + loc, cum_conf |-> cum_conf + conf, loc |-> loc, conf |-> conf]

RollOver(loc, conf, cum_loc, cum_conf) ==
    [cum_loc |-> cum_loc + loc, cum_conf |-> cum_conf + conf, loc |-> 0, conf |-> 0]

\* Lines 152-158: forward, zero_grad, criterion, backward, optimizer.step.
TrainOnBatch_StepBeforeBackward(n, opt) ==
    LET out  == n.params
        n1   == [n EXCEPT !.grad = 0]
        n2   == [n1 EXCEPT !.params = @ + 1]
        n3   == [n2 EXCEPT !.grad = @ + 1]
    IN  [net    |-> n3,
         step   |-> [lr |-> opt[1].lr, grad |-> n1.grad, out |-> out],
         events |-> <<"forward", "zero_grad", "criterion", "step", "backward">>]

TrainOnBatch(n, opt) ==
    LET out  == n.params
        n1   == [n EXCEPT !.grad = 0]
        n2   == [n1 EXCEPT !.grad = @ + 1]
        n3   == [n2 EXCEPT !.params = @ + 1]
    IN  [net    |-> n3,
         step   |-> [lr |-> opt[1].lr, grad |-> n2.grad, out |-> out],
         events |-> <<"forward", "zero_grad", "criterion", "backward", "step">>]

\* Lines 165-167: the parameter-only checkpoint.
Checkpoint_SkipFirst(files, n, i) ==
    IF i % SaveEvery = 0 /\ i > 0
    THEN Append(files, [kind |-> "state_dict", iteration |-> i, params |-> n.params])
    ELSE files

Checkpoint(files, n, i) ==
    IF i % SaveEvery = 0
    THEN Append(files, [kind |-> "state_dict", iteration |-> i, params |-> n.params])
    ELSE files

---------------------------------------------------------------------------
(* Initial states: the module has been loaded, train() has not been called *)

NoIterator == [id |-> 0, born |-> 0, pos |-> 0, samples |-> 0]
NoViz == [lines |-> 0, appended |-> 0, X |-> 0, Y |-> <<>>]
NoStep == [lr |-> Frac(0, 1), grad |-> 0, out |-> 0]
NoHist == [loc |-> 0, conf |-> 0, mark_loc |-> 0, mark_conf |-> 0,
           prev_loc |-> 0, prev_conf |-> 0]

LossOutputs == {<<1, 2>>, <<3, 0>>}

InitLocals ==
    /\ pc = "start"
    /\ fault = ""
    /\ iteration = 0
    /\ epoch_size = 0
    /\ step_index = 0
    /\ epoch = 0
    /\ loc_loss = 0
    /\ conf_loss = 0
    /\ cum_loc_loss = 0
    /\ cum_conf_loss = 0
    /\ net = [params |-> 0, grad |-> 0]
    /\ batch_iterator = NoIterator
    /\ viz = NoViz
    /\ saved = <<>>
    /\ lr_log = <<>>
    /\ events = <<>>
    /\ last_step = NoStep
    /\ hist = NoHist
    /\ retired = [pos |-> 0, samples |-> 0]

Init ==
    /\ dataset_len \in 0..MaxLen
    /\ \E b \in 1..MaxBatch, v \in BOOLEAN :
          args = [batch_size |-> b, iterations |-> DefaultIterations,
                  lr |-> Frac(1, 1000), gamma |-> Frac(1, 10), visdom |-> v]
    /\ criterion = LossOutputs
    /\ optimizer = SGD(args.lr)
    /\ InitLocals

\* Whole runs: <<len(dataset), batch_size, iterations, visdom>>
RunInputs == { <<0, 1, 120000, FALSE>>,
               <<10, 2, 12, FALSE>>,
               <<5000, 1, 120000, TRUE>>,
               <<60001, 2, 120000, TRUE>> }

InitRun ==
    /\ \E r \in RunInputs :
          /\ dataset_len = r[1]
          /\ args = [batch_size |-> r[2], iterations |-> r[3],
                     lr |-> Frac(1, 1000), gamma |-> Frac(1, 10), visdom |-> r[4]]
    /\ criterion = {<<1, 2>>}
    /\ optimizer = SGD(args.lr)
    /\ InitLocals

---------------------------------------------------------------------------
(* train() *)

\* Lines 89-115: the counters, epoch_size, step_index and the plot.
Start ==
    /\ pc = "start"
    /\ pc' = "loop"
    /\ loc_loss' = 0
    /\ conf_loss' = 0
    /\ cum_loc_loss' = 0
    /\ cum_conf_loss' = 0
    /\ epoch' = 0
    /\ epoch_size' = EpochSize(dataset_len, args.batch_size)
    /\ step_index' = 0
    /\ viz' = IF args.visdom THEN [viz EXCEPT !.lines = @ + 1] ELSE viz
    /\ UNCHANGED <<args, dataset_len, criterion, fault, iteration, optimizer, net,
                   batch_iterator, saved, lr_log, events, last_step, hist, retired>>

\* Line 117 with epoch_size == 0: ZeroDivisionError.
EpochTestFault ==
    /\ pc = "loop"
    /\ iteration < max_iter
    /\ epoch_size = 0
    /\ pc' = "fault"
    /\ fault' = "ZeroDivisionError"
    /\ UNCHANGED <<args, dataset_len, criterion, iteration, epoch_size, step_index,
                   epoch, loc_loss, conf_loss, cum_loc_loss, cum_conf_loss, optimizer,
                   net, batch_iterator, viz, saved, lr_log, events, last_step, hist,
                   retired>>

\* Lines 117-140.
EpochBoundary ==
    /\ pc = "loop"
    /\ iteration < max_iter
    /\ epoch_size # 0
    /\ IsEpochBoundary(iteration, epoch_size)
    /\ LET decay == iteration \in stepvalues
           si    == IF decay THEN step_index + 1 ELSE step_index
           r     == RollOver(loc_loss, conf_loss, cum_loc_loss, cum_conf_loss)
       IN  /\ batch_iterator' = [id |-> batch_iterator.id + 1, born |-> iteration,
                                 pos |-> 0, samples |-> 0]
           /\ step_index' = si
           /\ optimizer' = IF decay
                           THEN adjust_learning_rate(optimizer, args.gamma, si)
                           ELSE optimizer
           /\ lr_log' = IF decay THEN Append(lr_log, <<iteration, si>>) ELSE lr_log
           /\ cum_loc_loss' = r.cum_loc
           /\ cum_conf_loss' = r.cum_conf
           /\ epoch' = epoch + 1
           /\ viz' = IF args.visdom
                     THEN [viz EXCEPT !.appended = @ + 1,
                                      !.X = epoch + 1,
                                      !.Y = loss_list(loc_loss, conf_loss,
                                                      r.cum_loc, r.cum_conf)]
                     ELSE viz
           /\ loc_loss' = r.loc
           /\ conf_loss' = r.conf
           /\ events' = IF decay THEN <<"epoch_boundary", "adjust_learning_rate">>
                                 ELSE <<"epoch_boundary">>
    /\ hist' = [hist EXCEPT !.mark_loc = hist.loc, !.mark_conf = hist.conf,
                            !.prev_loc = hist.mark_loc, !.prev_conf = hist.mark_conf]
    /\ retired' = IF batch_iterator.id > 0
                   THEN [pos |-> batch_iterator.pos, samples |-> batch_iterator.samples]
                   ELSE retired
    /\ pc' = "batch"
    /\ UNCHANGED <<args, dataset_len, criterion, fault, iteration, epoch_size, net,
                   saved, last_step>>

\* Lines 143-167 and the loop increment of line 116.
BatchStep ==
    /\ \/ pc = "batch"
       \/ /\ pc = "loop"
          /\ iteration < max_iter
          /\ epoch_size # 0
          /\ ~IsEpochBoundary(iteration, epoch_size)
    /\ LET b   == NextBatch(batch_iterator)
           pre == IF pc = "batch" THEN events ELSE <<>>
       IN  IF ~b.ok
           THEN /\ pc' = "fault"
                /\ fault' = IF batch_iterator.id = 0 THEN "UnboundLocalError"
                                                      ELSE "StopIteration"
                /\ events' = pre \o <<"next">>
                /\ UNCHANGED <<iteration, loc_loss, conf_loss, net, batch_iterator,
                               saved, last_step, hist>>
           ELSE \E l \in criterion :
                LET t == TrainOnBatch(net, optimizer)
                    files == Checkpoint(saved, t.net, iteration)
                IN  /\ batch_iterator' = [batch_iterator EXCEPT
                                             !.pos = @ + 1, !.samples = @ + b.size]
                    /\ net' = t.net
                    /\ last_step' = t.step
                    /\ loc_loss' = loc_loss + l[1]
                    /\ conf_loss' = conf_loss + l[2]
                    /\ hist' = [hist EXCEPT !.loc = @ + l[1], !.conf = @ + l[2]]
                    /\ saved' = files
                    /\ events' = pre \o <<"next">> \o t.events \o
                                 (IF files # saved THEN <<"save">> ELSE <<>>)
                    /\ iteration' = iteration + 1
                    /\ pc' = "loop"
                    /\ fault' = fault
    /\ UNCHANGED <<args, dataset_len, criterion, epoch_size, step_index, epoch,
                   cum_loc_loss, cum_conf_loss, optimizer, viz, lr_log, retired>>

\* Line 168, once range(max_iter) is exhausted.
FinalSave ==
    /\ pc = "loop"
    /\ iteration = max_iter
    /\ saved' = Append(saved, [kind |-> "model", iteration |-> iteration,
                               params |-> net.params])
    /\ pc' = "done"
    /\ UNCHANGED <<args, dataset_len, criterion, fault, iteration, epoch_size,
                   step_index, epoch, loc_loss, conf_loss, cum_loc_loss, cum_conf_loss,
                   optimizer, net, batch_iterator, viz, lr_log, events, last_step, hist,
                   retired>>

---------------------------------------------------------------------------
(* Specifications *)

\* The first MaxSteps iterations of train(), over all small inputs.
Next ==
    \/ Start
    \/ EpochTestFault
    \/ (iteration < MaxSteps /\ EpochBoundary)
    \/ (iteration < MaxSteps /\ BatchStep)

Spec == Init /\ [][Next]_vars

\* Whole runs of train().
NextRun ==
    \/ Start
    \/ EpochTestFault
    \/ EpochBoundary
    \/ BatchStep
    \/ FinalSave

SpecRun == InitRun /\ [][NextRun]_vars

\* adjust_learning_rate on its own: any step index, any optimizer.
BaseRates == {Frac(1, 1000), Frac(1, 100), Frac(1, 2)}
Gammas == {Frac(1, 10), Frac(1, 2), Frac(2, 3)}

InitAdjust ==
    /\ dataset_len = 0
    /\ \E l \in BaseRates, g \in Gammas :
          args = [batch_size |-> 1, iterations |-> DefaultIterations,
                  lr |-> l, gamma |-> g, visdom |-> FALSE]
    /\ criterion = LossOutputs
    /\ \E n \in 1..MaxGroups :
          optimizer = [g \in 1..n |-> [lr |-> args.lr, momentum |-> Frac(g, 10),
                                        weight_decay |-> Frac(5 * g, 10000)]]
    /\ InitLocals

CallAdjust ==
    /\ pc \in {"start", "call"}
    /\ pc' = "call"
    /\ \E s \in 0..MaxStepIndex :
          /\ step_index' = s
          /\ optimizer' = adjust_learning_rate(optimizer, args.gamma, s)
    /\ UNCHANGED <<args, dataset_len, criterion, fault, iteration, epoch_size, epoch,
                   loc_loss, conf_loss, cum_loc_loss, cum_conf_loss, net,
                   batch_iterator, viz, saved, lr_log, events, last_step, hist,
                   retired>>

NextAdjust == CallAdjust

SpecAdjust == InitAdjust /\ [][NextAdjust]_vars

---------------------------------------------------------------------------
(* Properties *)

Running == pc \in {"loop", "batch", "done"}

\* Iterations whose epoch test (line 117) has been executed.
Tested == IF pc = "batch" THEN iteration + 1 ELSE iteration

ParamFiles == SelectSeq(saved, LAMBDA f : f.kind = "state_dict")
ModelFiles == SelectSeq(saved, LAMBDA f : f.kind = "model")

\* C1: in every run with a positive epoch_size the learning rate is adjusted at
\* exactly the iterations 80000, 100000 and 120000, step_index grows by one at
\* each of them, and it is 3 when the run ends.
C1_DecayAtEveryMilestone ==
    (epoch_size > 0 /\ Running) =>
        LET reached == {s \in {80000, 100000, 120000} : s < Tested}
        IN  /\ {lr_log[k][1] : k \in DOMAIN lr_log} = reached
            /\ step_index = Cardinality(reached)
            /\ (pc = "done" => step_index = 3)

\* C2: the parameter-only checkpoints written so far are those of the completed
\* iterations that are multiples of 5000, iteration 0 included, in order; the one
\* full-model checkpoint exists exactly when the run has ended, it is the last
\* file written, and it is written after the last iteration of the loop.
C2_CheckpointCadence ==
    LET n == (iteration + 4999) \div 5000
    IN  /\ Len(ParamFiles) = n
        /\ \A k \in 1..n : /\ saved[k].kind = "state_dict"
                           /\ saved[k].iteration = 5000 * (k - 1)
        /\ pc # "done" => Len(saved) = n
        /\ pc = "done" => /\ Len(saved) = n + 1
                          /\ saved[n + 1].kind = "model"
                          /\ saved[n + 1].iteration = 120000
                          /\ saved[n + 1].params = 120000

C2_FinishedRun ==
    /\ pc = "done"
    /\ Len(ParamFiles) = 24
    /\ Len(ModelFiles) = 1

\* C3: with epoch_size E >= 1, the batch iterators created so far are one per
\* executed iteration i with i mod E = 0, the current one was created at the
\* latest such iteration, and it has served every iteration since.
C3_IteratorPerEpoch ==
    (epoch_size >= 1 /\ Running) =>
        /\ batch_iterator.id = Cardinality({i \in 0..(Tested - 1) : i % epoch_size = 0})
        /\ Tested > 0 =>
              /\ batch_iterator.born = ((Tested - 1) \div epoch_size) * epoch_size
              /\ batch_iterator.pos = iteration - batch_iterator.born

C3_IteratorReused ==
    /\ pc = "loop"
    /\ epoch_size >= 2
    /\ batch_iterator.id = 2
    /\ batch_iterator.pos >= 1
    /\ iteration % epoch_size # 0

\* C4: a call adjust_learning_rate(optimizer, g, s) leaves every parameter group
\* with the lr L * g^s, L being the base rate args.lr, whatever the lr was before
\* (so a second call with the same s changes nothing), and leaves the number of
\* groups and their other entries as they were.
C4_AdjustSetsBaseTimesPower ==
    [][pc' = "call" =>
          /\ DOMAIN optimizer' = DOMAIN optimizer
          /\ \A g \in DOMAIN optimizer :
                /\ optimizer'[g].lr.num * (args.lr.den * args.gamma.den ^ step_index')
                     = optimizer'[g].lr.den * (args.lr.num * args.gamma.num ^ step_index')
                /\ optimizer'[g].lr = optimizer'[1].lr
                /\ optimizer'[g].momentum = optimizer[g].momentum
                /\ optimizer'[g].weight_decay = optimizer[g].weight_decay
          /\ (pc = "call" /\ step_index' = step_index) => optimizer' = optimizer
    ]_vars

C4_AdjustedTwice ==
    /\ pc = "call"
    /\ step_index = 2
    /\ Len(optimizer) >= 2
    /\ optimizer[1].lr # args.lr
    /\ optimizer[1].momentum # optimizer[2].momentum

\* C5: with 10 images, batch_size 2 and iterations 12, the run executes the
\* iterations 0..11 only, creates 3 batch iterators and writes one parameter
\* checkpoint.
C5_RunsConfiguredIterations ==
    (dataset_len = 10 /\ args.batch_size = 2 /\ args.iterations = 12) =>
        /\ Tested <= 12
        /\ batch_iterator.id <= 3
        /\ Len(ParamFiles) <= 1

\* C6 as stated: only the empty dataset can make the epoch test or the batch
\* fetch fault.
C6_OnlyEmptyDatasetFaults ==
    pc = "fault" => dataset_len = 0

\* C6 as amended: a run faults in the epoch test or the batch fetch exactly when
\* the dataset is shorter than one batch; it then faults with a division by zero
\* in the epoch test of iteration 0.  With len(dataset) >= batch_size >= 1 no
\* iteration faults.
C6_FaultsIffShorterThanBatch ==
    /\ pc = "fault" => /\ dataset_len < args.batch_size
                       /\ fault = "ZeroDivisionError"
                       /\ iteration = 0
    /\ dataset_len < args.batch_size => /\ pc \in {"start", "loop", "fault"}
                                        /\ iteration = 0
                                        /\ batch_iterator.id = 0

C6_SecondPassWithPartialBatch ==
    /\ pc = "loop"
    /\ dataset_len >= args.batch_size
    /\ dataset_len % args.batch_size # 0
    /\ batch_iterator.id >= 2
    /\ batch_iterator.pos = epoch_size

\* C7: right after the roll-over at iteration i the cumulative counters hold the
\* losses of all batches of iterations 0..i-1 and the epoch counters are 0; at any
\* time the cumulative counters hold the total as of the latest epoch boundary,
\* so the batches run since are in the epoch counters only.
C7_CumulativeLagsOneEpoch ==
    Running =>
        /\ pc = "batch" => /\ cum_loc_loss = hist.loc
                           /\ cum_conf_loss = hist.conf
                           /\ loc_loss = 0
                           /\ conf_loss = 0
        /\ (pc = "batch" /\ iteration = 0) => (cum_loc_loss = 0 /\ cum_conf_loss = 0)
        /\ cum_loc_loss = hist.mark_loc
        /\ cum_conf_loss = hist.mark_conf
        /\ loc_loss = hist.loc - hist.mark_loc
        /\ conf_loss = hist.conf - hist.mark_conf

C7_ThirdRollOver ==
    /\ pc = "batch"
    /\ batch_iterator.id = 3
    /\ cum_loc_loss > hist.prev_loc
    /\ hist.prev_loc > 0

\* C8: a completed iteration i ran its steps in the order epoch boundary (with
\* any learning-rate adjustment), batch fetch, forward, zero_grad, loss, backward,
\* optimizer step, checkpoint; it took one optimizer step, on the gradients of one
\* backward pass of the output of the parameters it started with, at the learning
\* rate in effect after its epoch boundary; its checkpoint holds the parameters
\* after that step.
C8_BodyOrder ==
    (pc = "loop" /\ iteration > 0) =>
        LET i == iteration - 1
            head == IF i % epoch_size = 0
                    THEN IF i \in {80000, 100000}
                         THEN <<"epoch_boundary", "adjust_learning_rate">>
                         ELSE <<"epoch_boundary">>
                    ELSE <<>>
            tail == IF i % 5000 = 0 THEN <<"save">> ELSE <<>>
        IN  /\ events = head \o <<"next", "forward", "zero_grad", "criterion",
                                  "backward", "step">> \o tail
            /\ net.params = iteration
            /\ last_step.out = i
            /\ last_step.grad = 1
            /\ last_step.lr = optimizer[1].lr
            /\ (lr_log # <<>> /\ lr_log[Len(lr_log)][1] = i) => last_step.lr # args.lr
            /\ i % 5000 = 0 => /\ saved[Len(saved)].iteration = i
                               /\ saved[Len(saved)].params = i + 1

C8_StepAfterAdjustment ==
    /\ pc = "loop"
    /\ iteration = 80001
    /\ lr_log = << <<80000, 1>> >>
    /\ last_step.lr = Frac(1, 10000)
    /\ saved[Len(saved)].params = 80001

\* C9: with visualization on, the plot is created once before the loop and one
\* point is appended per batch iterator created; the k-th point has x = k =
\* (iteration div epoch_size) + 1, is sent before any batch of its epoch, carries
\* the losses of the epoch before (zeros for k = 1) and the cumulative losses, and
\* its 3rd and 6th values are the sums of the 1st and 2nd and of the 4th and 5th.
\* With visualization off nothing is sent.
C9_OnePointPerEpoch ==
    (Running \/ pc = "fault") =>
        IF args.visdom
        THEN /\ viz.lines = 1
             /\ viz.appended = batch_iterator.id
             /\ viz.appended > 0 =>
                   /\ viz.X = viz.appended
                   /\ viz.X = (batch_iterator.born \div epoch_size) + 1
                   /\ Len(viz.Y) = 6
                   /\ viz.Y[1] = hist.mark_loc - hist.prev_loc
                   /\ viz.Y[2] = hist.mark_conf - hist.prev_conf
                   /\ viz.Y[3] = viz.Y[1] + viz.Y[2]
                   /\ viz.Y[4] = hist.mark_loc
                   /\ viz.Y[5] = hist.mark_conf
                   /\ viz.Y[6] = viz.Y[4] + viz.Y[5]
                   /\ viz.X = 1 => viz.Y = <<0, 0, 0, 0, 0, 0>>
             /\ pc = "batch" => /\ batch_iterator.pos = 0
                                /\ hist.loc = hist.mark_loc
                                /\ hist.conf = hist.mark_conf
        ELSE viz = NoViz

C9_ThirdPoint ==
    /\ args.visdom
    /\ pc = "batch"
    /\ viz.appended = 3
    /\ viz.Y[1] > 0
    /\ viz.Y[3] # viz.Y[6]

\* C10: with 1 <= batch_size <= len(dataset) and E = len(dataset) div batch_size,
\* every batch iterator that has been replaced was fetched from exactly E times,
\* the current one at most E times, and every batch fetched is a full one: an
\* epoch trains on E * batch_size samples and the trailing partial batch is never
\* fetched.
C10_FullBatchesOnly ==
    (1 <= args.batch_size /\ args.batch_size <= dataset_len /\ Running) =>
        LET E == dataset_len \div args.batch_size
        IN  /\ batch_iterator.pos <= E
            /\ batch_iterator.samples = batch_iterator.pos * args.batch_size
            /\ batch_iterator.id >= 2 => /\ retired.pos = E
                                         /\ retired.samples = E * args.batch_size

C10_PartialBatchDropped ==
    /\ batch_iterator.id >= 2
    /\ dataset_len % args.batch_size # 0
    /\ retired.samples < dataset_len
    /\ retired.pos >= 2

====
